---- MODULE Spec2Model ----
(***************************************************************************)
(* Model of api_camara.py: the retrying GET helper _chamar_api, the        *)
(* paginated listing obter_deputados_por_estado, the HTML renderer         *)
(* formatar_perfil_completo_html and the driver                            *)
(* exibir_perfil_completo_deputado.                                        *)
(*                                                                         *)
(* JSON values (what resp.json() returns) are tagged records:              *)
(*   null   [k |-> "null"]            (Python None)                        *)
(*   string [k |-> "str", s |-> "..."]                                     *)
(*   object [k |-> "obj", f |-> function from keys to JSON values]         *)
(*   array  [k |-> "arr", a |-> sequence of JSON values]                   *)
(* HTML text is a sequence of string tokens, in output order.              *)
(***************************************************************************)
EXTENDS Integers, Sequences, FiniteSets, TLC

\* Largest max_tentativas a direct call of _chamar_api is given.
MaxTent == 3
\* Number of pages the listing is followed through before the model stops.
MaxPages == 3
\* Default of the max_tentativas parameter, used by every caller in the file.
DefaultTentativas == 3
\* Default of the espera parameter (seconds slept between attempts).
DefaultEspera == 3

--------------------------------------------------------------------------
\* JSON values and the Python operations applied to them

JNull == [k |-> "null"]
JStr(s) == [k |-> "str", s |-> s]
JObj(f) == [k |-> "obj", f |-> f]
JArr(a) == [k |-> "arr", a |-> a]
NoKeys == [z \in {} |-> JNull]

None == JNull

\* Python truthiness: None, "", {} and [] are falsy.
Truthy(v) ==
    CASE v.k = "null" -> FALSE
      [] v.k = "str" -> v.s # ""
      [] v.k = "obj" -> DOMAIN v.f # {}
      [] v.k = "arr" -> Len(v.a) > 0

IsDict(v) == v.k = "obj"

\* dict.get(key, default); only evaluated on a dict.
Get(d, key, default) == IF key \in DOMAIN d.f THEN d.f[key] ELSE default

\* dict.get(key): the default is None.
Get1(d, key) == Get(d, key, None)

\* str(v) as an f-string interpolates it.
Str(v) ==
    CASE v.k = "null" -> "None"
      [] v.k = "str" -> v.s
      [] v.k = "obj" -> "{...}"
      [] v.k = "arr" -> "[...]"

--------------------------------------------------------------------------
\* State

VARIABLES
    op,              \* the function the caller invoked: "none" before any call
    pc,              \* position inside that function
    arg,             \* its argument: sigla_uf or id_deputado
    fpc,             \* position inside _chamar_api: idle, get, except, ret, raised
    url,             \* argument url of the running _chamar_api call
    tentativa,       \* loop variable of _chamar_api
    max_tentativas,  \* argument max_tentativas of the running call
    ftrace,          \* what the running call did so far: GETs, printed lines, sleeps
    fret,            \* value returned by _chamar_api
    pagina,          \* obter_deputados_por_estado: page counter
    deputados,       \* obter_deputados_por_estado: accumulated list
    lret,            \* obter_deputados_por_estado: returned pair
    reqs,            \* page numbers of the URLs the listing passed to _chamar_api
    got,             \* what _chamar_api returned for each of them
    detalhes, profissoes, ocupacoes, mandatos,  \* locals of exibir_perfil_completo_deputado
    calls,           \* endpoints the driver fetched, in order, with begin/end marks
    out,             \* what the driver printed and displayed, in order
    rargs,           \* arguments of the formatar_perfil_completo_html call
    rres             \* its outcome: the HTML returned or the exception raised

fvars == <<fpc, url, tentativa, max_tentativas, ftrace, fret>>
lvars == <<pagina, deputados, lret, reqs, got>>
pvars == <<detalhes, profissoes, ocupacoes, mandatos, calls, out>>
rvars == <<rargs, rres>>
vars == <<op, pc, arg, fpc, url, tentativa, max_tentativas, ftrace, fret,
          pagina, deputados, lret, reqs, got,
          detalhes, profissoes, ocupacoes, mandatos, calls, out, rargs, rres>>

--------------------------------------------------------------------------
\* _chamar_api

\* What requests.get / raise_for_status / resp.json() can raise:
\* a network error, a non-2xx status, a body that is not JSON.
Falhas == {"ConnectionError", "HTTPError", "JSONDecodeError"}

\* Base class of each, as the except clause sees it.
BaseDe(exc) == IF exc = "JSONDecodeError" THEN "ValueError" ELSE "RequestException"

\* The except clause without ValueError.
Capturada_SoRequest(exc) == BaseDe(exc) = "RequestException"

\* except (requests.exceptions.RequestException, ValueError)
Capturada(exc) == BaseDe(exc) \in {"RequestException", "ValueError"}

\* A sleep after every failed attempt, the last included.
DeveEsperar_Sempre(t, m) == t <= m

\* if tentativa < max_tentativas: time.sleep(espera)
DeveEsperar(t, m) == t < m

\* for tentativa in range(1, max_tentativas + 1): is there another iteration
HaProxima(t, m) == t + 1 <= m

EvGet(r, body) == [e |-> "get", r |-> r, body |-> body]
EvPrint(t, m, exc) == [e |-> "print", t |-> t, m |-> m, exc |-> exc]
EvSleep(s) == [e |-> "sleep", s |-> s]

\* Entering _chamar_api(u, max_tentativas = m): range(1, m + 1) is empty for m < 1.
ChamarApi(u, m) ==
    /\ fpc = "idle"
    /\ url' = u
    /\ max_tentativas' = m
    /\ tentativa' = 1
    /\ ftrace' = <<>>
    /\ fret' = None
    /\ fpc' = IF m >= 1 THEN "get" ELSE "ret"

\* The caller took the returned value: the call's frame is gone.
LiberarApi ==
    /\ fpc' = "idle"
    /\ url' = None
    /\ max_tentativas' = 0
    /\ tentativa' = 0
    /\ ftrace' = <<>>
    /\ fret' = None

--------------------------------------------------------------------------
\* The API: what a 2xx response with a JSON body can carry, per endpoint.
\* Envelope: { "dados": payload, "links": [ {"rel": ...}, ... ] }, any member
\* possibly missing or null.

O1(k1, v1) == JObj(k1 :> v1)
O2(k1, v1, k2, v2) == JObj((k1 :> v1) @@ (k2 :> v2))
O3(k1, v1, k2, v2, k3, v3) == JObj((k1 :> v1) @@ (k2 :> v2) @@ (k3 :> v3))

Dep(n) == O1("nome", JStr(n))
LinkNext == O1("rel", JStr("next"))
LinkSelf == O1("rel", JStr("self"))
LinkSemRel == O1("href", JStr("u"))

PgCheiaNext == O2("dados", JArr(<<Dep("d1")>>), "links", JArr(<<LinkSelf, LinkNext>>))
PgOutraNext == O2("dados", JArr(<<Dep("d5"), Dep("d6")>>), "links", JArr(<<LinkNext>>))
PgCheiaFim == O2("dados", JArr(<<Dep("d2"), Dep("d3")>>), "links", JArr(<<LinkSelf, LinkSemRel>>))
PgSemLinks == O1("dados", JArr(<<Dep("d4")>>))
PgVaziaNext == O2("dados", JArr(<<>>), "links", JArr(<<LinkNext>>))
PgSemDados == O1("links", JArr(<<LinkNext>>))
PgDadosNull == O2("dados", JNull, "links", JArr(<<>>))
PgObjVazio == JObj(NoKeys)

PaginasLista ==
    {PgCheiaNext, PgOutraNext, PgCheiaFim, PgSemLinks, PgVaziaNext, PgSemDados, PgDadosNull,
     PgObjVazio, JNull}

Prof(t) == O1("titulo", t)
ProfDuas == O1("dados", JArr(<<Prof(JStr("Advogado")), Prof(JStr("Professor"))>>))
ProfVazia == O2("dados", JArr(<<>>), "links", JArr(<<LinkSelf>>))
ProfSemTitulo == O1("dados", JArr(<<O1("codTipoProfissao", JStr("7"))>>))
ProfTituloNull == O1("dados", JArr(<<Prof(JStr("Medico")), Prof(JNull)>>))

Ocup(t) == O2("titulo", t, "entidade", JStr("E"))
OcupUma == O1("dados", JArr(<<Ocup(JStr("Diretor"))>>))
OcupVazia == O1("dados", JArr(<<>>))

MandCompleto ==
    JObj(("cargo" :> JStr("Prefeito")) @@ ("municipio" :> JStr("Natal")) @@ ("uf" :> JStr("RN"))
         @@ ("anoInicio" :> JStr("2001")) @@ ("anoFim" :> JStr("2004")))
MandParcial == O2("cargo", JStr("Vereador"), "anoFim", JNull)
MandDois == O1("dados", JArr(<<MandCompleto, MandParcial>>))
MandVazio == O1("dados", JArr(<<>>))
MandEntradaNull == O1("dados", JArr(<<JNull>>))

Frente(t) == O1("titulo", t)
FrenteDuas == O1("dados", JArr(<<Frente(JStr("F1")), Frente(JStr("F2"))>>))
FrenteVazia == O1("dados", JArr(<<>>))
FrenteSemTitulo == O1("dados", JArr(<<O1("id", JStr("9"))>>))
FrenteTituloNull == O1("dados", JArr(<<Frente(JNull)>>))

GabCompleto ==
    JObj(("predio" :> JStr("4")) @@ ("sala" :> JStr("101")) @@ ("andar" :> JStr("1"))
         @@ ("telefone" :> JStr("3215-5101")) @@ ("email" :> JStr("dep@camara.leg.br")))
StatusCompleto ==
    JObj(("nomeEleitoral" :> JStr("Fulana")) @@ ("urlFoto" :> JStr("foto.jpg"))
         @@ ("siglaPartido" :> JStr("XX")) @@ ("siglaUf" :> JStr("YY"))
         @@ ("data" :> JStr("2023-02-01")) @@ ("situacao" :> JStr("Exercicio"))
         @@ ("condicaoEleitoral" :> JStr("Titular")) @@ ("idLegislatura" :> JStr("57"))
         @@ ("gabinete" :> GabCompleto))
DetCompleto ==
    O1("dados",
       JObj(("ultimoStatus" :> StatusCompleto) @@ ("dataNascimento" :> JStr("1990-05-14"))
            @@ ("redeSocial" :> JArr(<<JStr("rede1"), JStr("rede2")>>))
            @@ ("urlWebsite" :> JStr("site")) @@ ("nomeCivil" :> JStr("Fulana de Tal"))
            @@ ("sexo" :> JStr("F")) @@ ("municipioNascimento" :> JStr("Natal"))
            @@ ("ufNascimento" :> JStr("RN")) @@ ("escolaridade" :> JStr("Superior"))
            @@ ("dataFalecimento" :> JStr("2024-03-02"))))
\* The end-to-end scenario of the specification.
DetExemplo ==
    O1("dados",
       O2("ultimoStatus",
          O3("nomeEleitoral", JStr("Fulano"), "siglaPartido", JStr("XX"), "siglaUf", JStr("YY")),
          "dataNascimento", JStr("1980-01-01")))
DetMinimo == O1("dados", O2("nomeCivil", JStr("Beltrano"), "sexo", JStr("M")))
DetCamposNull ==
    O1("dados",
       JObj(("ultimoStatus" :>
                JObj(("nomeEleitoral" :> JNull) @@ ("situacao" :> JNull) @@ ("data" :> JNull)
                     @@ ("gabinete" :> O1("predio", JNull))))
            @@ ("dataNascimento" :> JNull) @@ ("urlWebsite" :> JNull)
            @@ ("redeSocial" :> JNull) @@ ("sexo" :> JNull) @@ ("dataFalecimento" :> JNull)))
DetStatusNull == O1("dados", O2("nomeCivil", JStr("Sicrano"), "ultimoStatus", JNull))
DetGabNull ==
    O1("dados", O1("ultimoStatus", O2("nomeEleitoral", JStr("Sicrana"), "gabinete", JNull)))
DetDataHora == O1("dados", O1("ultimoStatus", O1("data", JStr("2023-02-01T11:45"))))

DetObjVazio == JObj(NoKeys)
DetDadosNull == O1("dados", JNull)
DetDadosVazio == O2("dados", JObj(NoKeys), "links", JArr(<<LinkSelf>>))
DetSemDados == O1("links", JArr(<<LinkSelf>>))

\* Details arguments without a data payload, and with one.
DetalhesSemPayload == {None, DetObjVazio, DetDadosNull, DetDadosVazio, DetSemDados}
DetalhesComPayload ==
    {DetCompleto, DetExemplo, DetMinimo, DetCamposNull, DetStatusNull, DetGabNull, DetDataHora}

ArgsDetalhes == DetalhesSemPayload \cup DetalhesComPayload
ArgsProfissoes == {None, JObj(NoKeys), ProfVazia, ProfDuas, ProfSemTitulo, ProfTituloNull}
ArgsOcupacoes == {None, OcupVazia, OcupUma}
ArgsMandatos == {None, MandVazio, MandDois, MandEntradaNull}
ArgsFrentes == {None, FrenteVazia, FrenteDuas, FrenteSemTitulo, FrenteTituloNull}

\* Bodies the API serves for a URL of the given endpoint.
Corpos(u) ==
    CASE u.kind = "lista" -> PaginasLista
      [] u.kind = "detalhes" ->
            {JNull, DetObjVazio, DetDadosNull, DetCompleto, DetExemplo, DetCamposNull,
             DetStatusNull, DetDataHora}
      [] u.kind = "profissoes" -> {JNull, ProfVazia, ProfDuas, ProfSemTitulo}
      [] u.kind = "ocupacoes" -> {OcupVazia, OcupUma}
      [] u.kind = "mandatosExternos" -> {MandVazio, MandDois}

--------------------------------------------------------------------------
\* formatar_perfil_completo_html

Indisponivel == <<"<h3>Nao foi possivel obter os detalhes do deputado.</h3>">>
TituloProfissional == "<h4>Atuacao Profissional e Publica</h4>"
TituloParlamentar == "<h4>Atuacao Parlamentar</h4>"

\* datetime.strptime(s, "%Y-%m-%d") on the date strings of the model: the
\* year, month and day fields, or no match (ValueError).
DatasValidas == {"1980-01-01", "1990-05-14", "2023-02-01"}
strptime(s) ==
    CASE s = "1980-01-01" -> [y |-> "1980", m |-> "01", d |-> "01"]
      [] s = "1990-05-14" -> [y |-> "1990", m |-> "05", d |-> "14"]
      [] s = "2023-02-01" -> [y |-> "2023", m |-> "02", d |-> "01"]

\* .strftime("%d/%m/%Y")
strftime(dt) == <<dt.d, "/", dt.m, "/", dt.y>>

\* strptime(x).strftime(...) if x else "Nao informada"
FormatarData(x) == IF Truthy(x) THEN strftime(strptime(x.s)) ELSE <<"Nao informada">>

\* What that expression raises, "none" when nothing.
ErroData(x) ==
    IF ~Truthy(x) THEN "none"
    ELSE IF x.k # "str" THEN "TypeError"
    ELSE IF x.s \notin DatasValidas THEN "ValueError"
    ELSE "none"

\* "x and x.get('dados')" as a condition
TemDados(x) == Truthy(x) /\ Truthy(Get1(x, "dados"))

\* The test without its second half.
SemDetalhes_SoNone(det) == ~Truthy(det)

\* if not detalhes or not detalhes.get("dados")
SemDetalhes(det) == ~Truthy(det) \/ ~Truthy(Get1(det, "dados"))

\* if (profissoes and profissoes.get("dados")) or (mandatos and mandatos.get("dados"))
MostraProfissional(prof, mand) == TemDados(prof) \/ TemDados(mand)

\* if frentes and frentes.get("dados")
MostraParlamentar(fr) == TemDados(fr)

\* The sequences of a sequence of sequences, one after the other.
RECURSIVE Flatten(_)
Flatten(ss) == IF ss = <<>> THEN <<>> ELSE Head(ss) \o Flatten(Tail(ss))

\* ', '.join(xs)
Join(xs) ==
    [i \in 1..(IF Len(xs) = 0 THEN 0 ELSE 2 * Len(xs) - 1) |->
        IF i % 2 = 1 THEN xs[(i + 1) \div 2] ELSE ", "]

\* First element of the array whose lookup e["titulo"] raises, as the exception.
ErroTitulos(arr) ==
    IF arr.k # "arr" THEN "TypeError"
    ELSE LET bad == {i \in 1..Len(arr.a) : ~IsDict(arr.a[i]) \/ "titulo" \notin DOMAIN arr.a[i].f}
         IN  IF bad = {} THEN "none"
             ELSE LET i == CHOOSE j \in bad : \A l \in bad : j <= l
                  IN  IF IsDict(arr.a[i]) THEN "KeyError" ELSE "TypeError"

\* [p["titulo"] for p in x["dados"]]
Titulos(arr) == [i \in 1..Len(arr.a) |-> arr.a[i].f["titulo"]]

\* ', '.join raises on an item that is not a string.
ErroJoin(ts) == IF \E i \in 1..Len(ts) : ts[i].k # "str" THEN "TypeError" ELSE "none"

\* for m in mandatos["dados"]: m.get(...)
ErroMandatos(arr) ==
    IF arr.k # "arr" THEN "TypeError"
    ELSE IF \E i \in 1..Len(arr.a) : ~IsDict(arr.a[i]) THEN "AttributeError"
    ELSE "none"

LinhaMandato(m) ==
    <<"<li>Mandato Anterior:", Str(Get(m, "cargo", JStr(""))), "em",
      Str(Get(m, "municipio", JStr(""))), "/", Str(Get(m, "uf", JStr(""))), "(",
      Str(Get(m, "anoInicio", JStr(""))), "-", Str(Get(m, "anoFim", JStr(""))), ")</li>">>

\* Items a for loop visits; the model's inputs hold arrays or nothing there.
Itens(v) == IF v.k = "arr" THEN v.a ELSE <<>>

VazioObj == JObj(NoKeys)

\* Lines 114-169: style block and header.
Cabecalho(status) ==
    <<"<style>...</style><div class='profile-card'>",
      "<img src=", Str(Get(status, "urlFoto", JStr(""))),
      "alt=Foto de", Str(Get(status, "nomeEleitoral", JStr("Nome nao informado"))),
      "<h2>", Str(Get(status, "nomeEleitoral", JStr("Nome nao informado"))),
      "<h3>", Str(Get(status, "siglaPartido", JStr("N/A"))), " - ",
      Str(Get(status, "siglaUf", JStr("N/A")))>>

\* Lines 172-182.
ResumoMandato(status) ==
    <<"<h4>Resumo do Mandato</h4>",
      "Situacao:", Str(Get(status, "situacao", JStr("Nao informada"))),
      "Condicao Eleitoral:", Str(Get(status, "condicaoEleitoral", JStr("Nao informada"))),
      "Legislatura:", Str(Get(status, "idLegislatura", JStr("Nao informada"))),
      "Status desde:">> \o FormatarData(Get1(status, "data"))

\* Lines 185-202.
Contatos(dados, gabinete) ==
    <<"<h4>Gabinete e Contatos</h4>",
      "Predio", Str(Get(gabinete, "predio", JStr("?"))),
      "sala", Str(Get(gabinete, "sala", JStr("?"))),
      "andar", Str(Get(gabinete, "andar", JStr("?"))),
      "Telefone:", Str(Get(gabinete, "telefone", JStr("Nao informado"))),
      "Email:", Str(Get(gabinete, "email", JStr("Nao informado")))>>
    \o (IF Truthy(Get1(dados, "urlWebsite"))
        THEN <<"Website:", Str(Get1(dados, "urlWebsite")), Str(Get1(dados, "urlWebsite"))>>
        ELSE <<>>)
    \o (LET redes == Get(dados, "redeSocial", JArr(<<>>))
        IN  IF Truthy(redes)
            THEN <<"Redes Sociais:">>
                 \o Flatten([i \in 1..Len(Itens(redes)) |->
                                <<"<a href=", Str(Itens(redes)[i]), Str(Itens(redes)[i])>>])
            ELSE <<>>)
    \o <<"</ul></div>">>

\* Lines 205-217.
Pessoais(dados) ==
    <<"<h4>Informacoes Pessoais</h4>",
      "Nome Civil:", Str(Get(dados, "nomeCivil", JStr("Nao informado"))),
      "Data de Nascimento:">> \o FormatarData(Get1(dados, "dataNascimento"))
    \o <<"Sexo:", IF Get1(dados, "sexo") = JStr("F") THEN "Feminino" ELSE "Masculino",
         "Naturalidade:", Str(Get(dados, "municipioNascimento", JStr("N/A"))), " - ",
         Str(Get(dados, "ufNascimento", JStr("N/A"))),
         "Escolaridade:", Str(Get(dados, "escolaridade", JStr("Nao informada")))>>
    \o (IF Truthy(Get1(dados, "dataFalecimento"))
        THEN <<"Data de Falecimento:", Str(Get1(dados, "dataFalecimento"))>>
        ELSE <<>>)
    \o <<"</ul></div>">>

\* Lines 220-231.
Profissional(prof, mand) ==
    IF MostraProfissional(prof, mand)
    THEN <<TituloProfissional>>
         \o (LET lista == IF TemDados(prof) THEN Titulos(Get1(prof, "dados")) ELSE <<>>
             IN  IF lista # <<>>
                 THEN <<"Profissoes:">> \o Join([i \in 1..Len(lista) |-> Str(lista[i])])
                 ELSE <<>>)
         \o (IF TemDados(mand)
             THEN Flatten([i \in 1..Len(Get1(mand, "dados").a) |->
                              LinhaMandato(Get1(mand, "dados").a[i])])
             ELSE <<>>)
         \o <<"</ul></div>">>
    ELSE <<>>

\* Lines 233-237.
Parlamentar(fr) ==
    IF MostraParlamentar(fr)
    THEN <<TituloParlamentar, "Participa de Frentes:",
           ToString(Len(Titulos(Get1(fr, "dados")))), "frentes", "</ul></div>">>
    ELSE <<>>

\* The exception the body raises after the short-circuit test, in evaluation
\* order; "none" when it runs to its return.
ErroFormatar(det, prof, mand, fr) ==
    IF ~IsDict(det) THEN "AttributeError"
    ELSE LET dados == Get(det, "dados", VazioObj) IN
    IF ~IsDict(dados) THEN "AttributeError"
    ELSE LET status == Get(dados, "ultimoStatus", VazioObj) IN
    IF ~IsDict(status) THEN "AttributeError"
    ELSE IF ErroData(Get1(dados, "dataNascimento")) # "none"
         THEN ErroData(Get1(dados, "dataNascimento"))
    ELSE IF ErroData(Get1(status, "data")) # "none" THEN ErroData(Get1(status, "data"))
    ELSE IF ~IsDict(Get(status, "gabinete", VazioObj)) THEN "AttributeError"
    ELSE IF Truthy(prof) /\ ~IsDict(prof) THEN "AttributeError"
    ELSE IF ~TemDados(prof) /\ Truthy(mand) /\ ~IsDict(mand) THEN "AttributeError"
    ELSE IF TemDados(prof) /\ ErroTitulos(Get1(prof, "dados")) # "none"
         THEN ErroTitulos(Get1(prof, "dados"))
    ELSE IF TemDados(prof) /\ ErroJoin(Titulos(Get1(prof, "dados"))) # "none"
         THEN ErroJoin(Titulos(Get1(prof, "dados")))
    ELSE IF Truthy(mand) /\ ~IsDict(mand) THEN "AttributeError"
    ELSE IF TemDados(mand) /\ ErroMandatos(Get1(mand, "dados")) # "none"
         THEN ErroMandatos(Get1(mand, "dados"))
    ELSE IF Truthy(fr) /\ ~IsDict(fr) THEN "AttributeError"
    ELSE IF TemDados(fr) /\ ErroTitulos(Get1(fr, "dados")) # "none"
         THEN ErroTitulos(Get1(fr, "dados"))
    ELSE "none"

\* The string built by lines 94-240.
Html(det, prof, mand, fr) ==
    LET dados == Get(det, "dados", VazioObj)
        status == Get(dados, "ultimoStatus", VazioObj)
        gabinete == Get(status, "gabinete", VazioObj)
    IN  Cabecalho(status) \o ResumoMandato(status) \o Contatos(dados, gabinete)
        \o Pessoais(dados) \o Profissional(prof, mand) \o Parlamentar(fr) \o <<"</div>">>

\* The call's outcome: the string returned, or the exception raised.
formatar_perfil_completo_html(det, prof, ocup, mand, fr) ==
    IF SemDetalhes(det) THEN [ok |-> TRUE, html |-> Indisponivel]
    ELSE IF ErroFormatar(det, prof, mand, fr) # "none"
         THEN [ok |-> FALSE, exc |-> ErroFormatar(det, prof, mand, fr)]
    ELSE [ok |-> TRUE, html |-> Html(det, prof, mand, fr)]

--------------------------------------------------------------------------
\* Calls

UrlLista(uf, pg) == [kind |-> "lista", uf |-> uf, pagina |-> pg]
UrlDeputado(id, sufixo) == [kind |-> sufixo, id |-> id]

Siglas == {"RN"}
Ids == {"220559"}

Init ==
    /\ op = "none" /\ pc = "inicio" /\ arg = ""
    /\ fpc = "idle" /\ url = None /\ tentativa = 0 /\ max_tentativas = 0
    /\ ftrace = <<>> /\ fret = None
    /\ pagina = 0 /\ deputados = <<>> /\ lret = None /\ reqs = <<>> /\ got = <<>>
    /\ detalhes = None /\ profissoes = None /\ ocupacoes = None /\ mandatos = None
    /\ calls = <<>> /\ out = <<>>
    /\ rargs = <<>> /\ rres = None

\* _chamar_api(url, max_tentativas = m) called on its own.
ChamadaDireta ==
    /\ op = "none"
    /\ \E m \in 0..MaxTent, s \in {"profissoes", "detalhes"} :
          ChamarApi(UrlDeputado("220559", s), m)
    /\ op' = "api" /\ pc' = "chamada"
    /\ UNCHANGED <<arg, lvars, pvars, rvars>>

\* Lines 27-29: the GET answers 2xx with a JSON body; the parsed body is returned.
RespostaOk ==
    /\ fpc = "get"
    /\ \E body \in Corpos(url) :
          /\ ftrace' = Append(ftrace, EvGet("ok", body))
          /\ fret' = body
    /\ fpc' = "ret"
    /\ UNCHANGED <<op, pc, arg, url, tentativa, max_tentativas, lvars, pvars, rvars>>

\* Lines 27-30: requests.get, raise_for_status or resp.json() raises.
RespostaErro ==
    /\ fpc = "get"
    /\ \E exc \in Falhas :
          /\ ftrace' = Append(ftrace, EvGet(exc, None))
          /\ fpc' = IF Capturada(exc) THEN "except" ELSE "raised"
    /\ UNCHANGED <<op, pc, arg, url, tentativa, max_tentativas, fret, lvars, pvars, rvars>>

\* Lines 31-34: the handler prints, sleeps if attempts remain, and the loop
\* goes to its next iteration or falls through to return None.
TratarErro ==
    /\ fpc = "except"
    /\ ftrace' = ftrace
                 \o <<EvPrint(tentativa, max_tentativas, ftrace[Len(ftrace)].r)>>
                 \o (IF DeveEsperar(tentativa, max_tentativas)
                     THEN <<EvSleep(DefaultEspera)>> ELSE <<>>)
    /\ IF HaProxima(tentativa, max_tentativas)
       THEN /\ tentativa' = tentativa + 1
            /\ fpc' = "get"
            /\ fret' = fret
       ELSE /\ tentativa' = tentativa
            /\ fpc' = "ret"
            /\ fret' = None
    /\ UNCHANGED <<op, pc, arg, url, max_tentativas, lvars, pvars, rvars>>

--------------------------------------------------------------------------
\* obter_deputados_por_estado

\* if not dados
Falhou(dados) == ~Truthy(dados)

\* if not dados.get("dados")
PaginaVazia(dados) == ~Truthy(Get1(dados, "dados"))

\* The page put in front of the list instead of after it.
Estender_NaFrente(deps, dados) == dados.f["dados"].a \o deps

\* deputados.extend(dados["dados"])
Estender(deps, dados) == deps \o dados.f["dados"].a

\* any(link.get("rel") == "next" for link in dados.get("links", []))
TemNext(dados) ==
    LET links == Itens(Get(dados, "links", JArr(<<>>)))
    IN  \E i \in 1..Len(links) : Get1(links[i], "rel") = JStr("next")

\* The officials gathered so far returned with the failure.
RetornoFalha_Parcial(deps) == [ok |-> FALSE, lista |-> JArr(deps)]

\* return False, None
RetornoFalha(deps) == [ok |-> FALSE, lista |-> None]

\* return True, deputados
RetornoSucesso(deps) == [ok |-> TRUE, lista |-> JArr(deps)]

\* The counter left where it is.
ProximaPagina_Parada(pg) == pg

\* pagina += 1
ProximaPagina(pg) == pg + 1

\* Lines 43-44.
ListarInicio ==
    /\ op = "none"
    /\ \E uf \in Siglas : arg' = uf
    /\ op' = "lista" /\ pc' = "laco"
    /\ pagina' = 1 /\ deputados' = <<>>
    /\ UNCHANGED <<fvars, lret, reqs, got, pvars, rvars>>

\* Lines 46-47: the URL of the current page is handed to _chamar_api.
ListarPedir ==
    /\ op = "lista" /\ pc = "laco"
    /\ pagina <= MaxPages
    /\ ChamarApi(UrlLista(arg, pagina), DefaultTentativas)
    /\ reqs' = Append(reqs, pagina)
    /\ pc' = "espera"
    /\ UNCHANGED <<op, arg, pagina, deputados, lret, got, pvars, rvars>>

\* Lines 47-56: _chamar_api returned; the rest of the loop body.
ListarTratar ==
    /\ op = "lista" /\ pc = "espera" /\ fpc = "ret"
    /\ got' = Append(got, fret)
    /\ IF Falhou(fret)
       THEN /\ lret' = RetornoFalha(deputados)
            /\ pc' = "fim"
            /\ UNCHANGED <<pagina, deputados>>
       ELSE IF PaginaVazia(fret)
       THEN /\ lret' = RetornoSucesso(deputados)
            /\ pc' = "fim"
            /\ UNCHANGED <<pagina, deputados>>
       ELSE /\ deputados' = Estender(deputados, fret)
            /\ IF ~TemNext(fret)
               THEN /\ lret' = RetornoSucesso(deputados')
                    /\ pc' = "fim"
                    /\ pagina' = pagina
               ELSE /\ pagina' = ProximaPagina(pagina)
                    /\ pc' = "laco"
                    /\ lret' = lret
    /\ LiberarApi
    /\ UNCHANGED <<op, arg, reqs, pvars, rvars>>

--------------------------------------------------------------------------
\* exibir_perfil_completo_deputado

MsgBuscando == [t |-> "print", s |-> "Buscando perfil completo para o deputado ID"]
MsgAbortar ==
    [t |-> "print",
     s |-> "Nao foi possivel continuar, pois os detalhes basicos do deputado nao foram encontrados."]
MsgFinalizada == [t |-> "print", s |-> "Busca finalizada."]
Display(html) == [t |-> "display", html |-> html]

Etapas == {"detalhes", "profissoes", "ocupacoes", "mandatosExternos"}

\* Lines 250-253: the statement after each fetch.
ProximaEtapa(e) ==
    CASE e = "detalhes" -> "profissoes"
      [] e = "profissoes" -> "ocupacoes"
      [] e = "ocupacoes" -> "mandatosExternos"
      [] e = "mandatosExternos" -> "verifica"

\* if not detalhes
DeveAbortar(det) == ~Truthy(det)

\* formatar_perfil_completo_html(detalhes, profissoes, ocupacoes, mandatos): frentes defaults to None
ArgsDoPerfil(det, prof, ocup, mand) ==
    [detalhes |-> det, profissoes |-> prof, ocupacoes |-> ocup, mandatos |-> mand,
     frentes |-> None]

Formatar(a) ==
    formatar_perfil_completo_html(a.detalhes, a.profissoes, a.ocupacoes, a.mandatos, a.frentes)

\* Line 249.
PerfilInicio ==
    /\ op = "none"
    /\ \E id \in Ids : arg' = id
    /\ op' = "perfil" /\ pc' = "detalhes"
    /\ out' = <<MsgBuscando>>
    /\ UNCHANGED <<fvars, lvars, detalhes, profissoes, ocupacoes, mandatos, calls, rvars>>

\* Lines 59-76: obter_*_deputado builds its URL and calls _chamar_api.
PerfilPedir ==
    /\ op = "perfil" /\ pc \in Etapas
    /\ ChamarApi(UrlDeputado(arg, pc), DefaultTentativas)
    /\ calls' = Append(calls, [ev |-> "inicio", kind |-> pc])
    /\ UNCHANGED <<op, pc, arg, lvars, detalhes, profissoes, ocupacoes, mandatos, out, rvars>>

\* Lines 250-253: the fetcher returned; its result is assigned.
PerfilReceber ==
    /\ op = "perfil" /\ pc \in Etapas /\ fpc = "ret"
    /\ detalhes' = IF pc = "detalhes" THEN fret ELSE detalhes
    /\ profissoes' = IF pc = "profissoes" THEN fret ELSE profissoes
    /\ ocupacoes' = IF pc = "ocupacoes" THEN fret ELSE ocupacoes
    /\ mandatos' = IF pc = "mandatosExternos" THEN fret ELSE mandatos
    /\ calls' = Append(calls, [ev |-> "fim", kind |-> pc])
    /\ pc' = ProximaEtapa(pc)
    /\ LiberarApi
    /\ UNCHANGED <<op, arg, lvars, out, rvars>>

\* Lines 255-261.
PerfilFinalizar ==
    /\ op = "perfil" /\ pc = "verifica"
    /\ IF DeveAbortar(detalhes)
       THEN /\ out' = Append(out, MsgAbortar)
            /\ pc' = "fim"
            /\ UNCHANGED rvars
       ELSE LET a == ArgsDoPerfil(detalhes, profissoes, ocupacoes, mandatos)
            IN  /\ rargs' = Append(rargs, a)
                /\ rres' = Formatar(a)
                /\ IF Formatar(a).ok
                   THEN /\ out' = out \o <<Display(Formatar(a).html), MsgFinalizada>>
                        /\ pc' = "fim"
                   ELSE /\ out' = out
                        /\ pc' = "excecao"
    /\ UNCHANGED <<op, arg, fvars, lvars, detalhes, profissoes, ocupacoes, mandatos, calls>>

\* formatar_perfil_completo_html called on its own, with any of its arguments.
FormatarDireto ==
    /\ op = "none"
    /\ \E det \in ArgsDetalhes, prof \in ArgsProfissoes, ocup \in ArgsOcupacoes,
          mand \in ArgsMandatos, fr \in ArgsFrentes :
          LET a == [detalhes |-> det, profissoes |-> prof, ocupacoes |-> ocup,
                    mandatos |-> mand, frentes |-> fr]
          IN  /\ rargs' = <<a>>
              /\ rres' = Formatar(a)
              /\ pc' = IF Formatar(a).ok THEN "fim" ELSE "excecao"
    /\ op' = "formatar"
    /\ UNCHANGED <<arg, fvars, lvars, pvars>>

--------------------------------------------------------------------------

Next ==
    \/ ChamadaDireta
    \/ RespostaOk
    \/ RespostaErro
    \/ TratarErro
    \/ ListarInicio
    \/ ListarPedir
    \/ ListarTratar
    \/ PerfilInicio
    \/ PerfilPedir
    \/ PerfilReceber
    \/ PerfilFinalizar
    \/ FormatarDireto

Spec == Init /\ [][Next]_vars

\* The program runs on one thread and every step it takes ends (a GET answers
\* or times out, a sleep ends): a step that can be taken is taken.
FairSpec == Spec /\ WF_vars(Next)

--------------------------------------------------------------------------
\* Reading the record of a _chamar_api call

Idx(tr, ev) == {i \in 1..Len(tr) : tr[i].e = ev}
GetsOf(tr) == Idx(tr, "get")
SleepsOf(tr) == Idx(tr, "sleep")
PrintsOf(tr) == Idx(tr, "print")
OkGets(tr) == {i \in GetsOf(tr) : tr[i].r = "ok"}
FailedGets(tr) == {i \in GetsOf(tr) : tr[i].r # "ok"}
\* The attempt number of the GET at position i.
AttemptNo(tr, i) == Cardinality({j \in GetsOf(tr) : j <= i})

\* C1: a finished _chamar_api call with max_tentativas >= 1 either ended on
\* its first successful GET, after k < max_tentativas failed GETs and k
\* sleeps, returning that GET's body; or made exactly max_tentativas GETs,
\* all failed, slept max_tentativas - 1 times, the last event being the
\* print of the last failure and not a sleep, and returned None.
C1_RetryCounts ==
    (fpc = "ret" /\ max_tentativas >= 1) =>
        LET k == Cardinality(FailedGets(ftrace))
        IN  IF OkGets(ftrace) # {}
            THEN /\ OkGets(ftrace) = {Len(ftrace)}
                 /\ fret = ftrace[Len(ftrace)].body
                 /\ k < max_tentativas
                 /\ Cardinality(GetsOf(ftrace)) = k + 1
                 /\ Cardinality(SleepsOf(ftrace)) = k
            ELSE /\ fret = None
                 /\ Cardinality(GetsOf(ftrace)) = max_tentativas
                 /\ Cardinality(SleepsOf(ftrace)) = max_tentativas - 1
                 /\ ftrace[Len(ftrace)].e = "print"

\* C1 witness: every one of three attempts failed and the call returned.
C1_Witness ==
    /\ fpc = "ret" /\ max_tentativas = 3
    /\ OkGets(ftrace) = {}
    /\ Cardinality(FailedGets(ftrace)) = 3
    /\ Cardinality(SleepsOf(ftrace)) = 2

\* C2: no exception leaves _chamar_api; whatever the kind of a failed
\* attempt, it is followed by exactly one printed line naming that attempt
\* and that exception, then by a sleep and another GET if attempts remain and
\* by nothing otherwise; every printed line follows a failed GET; and the
\* call returns the body of the first successful GET, or None if there is none.
C2_NeverRaises ==
    /\ fpc # "raised"
    /\ fpc = "ret" =>
        /\ \A i \in FailedGets(ftrace) :
              /\ i + 1 <= Len(ftrace)
              /\ ftrace[i + 1] = EvPrint(AttemptNo(ftrace, i), max_tentativas, ftrace[i].r)
              /\ IF AttemptNo(ftrace, i) < max_tentativas
                 THEN /\ i + 3 <= Len(ftrace)
                      /\ ftrace[i + 2].e = "sleep"
                      /\ ftrace[i + 3].e = "get"
                 ELSE i + 1 = Len(ftrace)
        /\ \A i \in PrintsOf(ftrace) : i - 1 \in FailedGets(ftrace)
        /\ Cardinality(PrintsOf(ftrace)) = Cardinality(FailedGets(ftrace))
        /\ IF OkGets(ftrace) # {}
           THEN LET first == CHOOSE i \in OkGets(ftrace) : \A j \in OkGets(ftrace) : i <= j
                IN  fret = ftrace[first].body /\ first = Len(ftrace)
           ELSE fret = None

\* C2 witness: a call that met all three kinds of failure and returned None.
C2_Witness ==
    /\ fpc = "ret" /\ fret = None
    /\ {ftrace[i].r : i \in FailedGets(ftrace)} = Falhas

--------------------------------------------------------------------------
\* Reading the pages obter_deputados_por_estado was given

\* The page's "dados" array, empty when the member is missing or null.
DataOf(p) ==
    IF p.k = "obj" /\ "dados" \in DOMAIN p.f /\ p.f["dados"].k = "arr"
    THEN p.f["dados"].a ELSE <<>>

\* The page has a link entry with rel == "next".
CarriesNext(p) ==
    /\ p.k = "obj" /\ "links" \in DOMAIN p.f /\ p.f["links"].k = "arr"
    /\ \E i \in 1..Len(p.f["links"].a) :
          LET l == p.f["links"].a[i]
          IN  l.k = "obj" /\ "rel" \in DOMAIN l.f /\ l.f["rel"] = JStr("next")

RECURSIVE ConcatData(_)
ConcatData(ps) == IF ps = <<>> THEN <<>> ELSE DataOf(Head(ps)) \o ConcatData(Tail(ps))

\* The page makes the loop go on: it is truthy, has officials and a next link.
Continues(p) == Truthy(p) /\ DataOf(p) # <<>> /\ CarriesNext(p)

ListDone == op = "lista" /\ pc = "fim"

C4_AllOrNothing ==
    (op = "lista" /\ \E n \in 1..Len(got) : got[n] = None) =>
        /\ pc = "fim"
        /\ lret = [ok |-> FALSE, lista |-> None]
        /\ \A n \in 1..Len(got) : got[n] = None => n = Len(got)
        /\ Len(reqs) = Len(got)

\* C4 witness: the second page failed after the first one brought officials.
C4_Witness ==
    /\ ListDone
    /\ Len(got) = 2 /\ got[1] = PgCheiaNext /\ got[2] = None
    /\ deputados # <<>>
    /\ lret = [ok |-> FALSE, lista |-> None]

\* C5 as claimed: a finished listing returned (false, null) if and only if
\* some page fetch returned the failure marker; with every fetch returning a
\* parsed value it returned (true, accumulated list), and a first page with an
\* empty or missing dados array gives (true, []).
C5_Original ==
    ListDone =>
        /\ (lret = [ok |-> FALSE, lista |-> None]) <=> (\E n \in 1..Len(got) : got[n] = None)
        /\ (\A n \in 1..Len(got) : got[n] # None) =>
              lret = [ok |-> TRUE, lista |-> JArr(deputados)]
        /\ (Len(got) = 1 /\ got[1] # None /\ DataOf(got[1]) = <<>>) =>
              lret = [ok |-> TRUE, lista |-> JArr(<<>>)]

\* The state C5 fails in: the first page's body is the empty object.
C5_Failure ==
    ListDone /\ got = <<PgObjVazio>> /\ lret = [ok |-> FALSE, lista |-> None]

\* C10: the listing asks for pages 1, 2, 3, ... one _chamar_api call each;
\* it ends only on a page that failed, is empty or has no next link, at no
\* page number of its own; and, each step being taken, a listing that was
\* started ends unless every page it was served so far goes on.
C10_SafetyPart ==
    op = "lista" =>
        /\ reqs = [i \in 1..Len(reqs) |-> i]
        /\ Len(reqs) \in {Len(got), Len(got) + 1}
        /\ pc = "fim" => (~Continues(got[Len(got)]) /\ Len(reqs) = Len(got))
        /\ (got # <<>> /\ Continues(got[Len(got)])) =>
              /\ pagina = Len(got) + 1
              /\ pc = "laco" \/ (pc = "espera" /\ Len(reqs) = Len(got) + 1)
C10_Pages ==
    /\ []C10_SafetyPart
    /\ (op = "lista") ~> (ListDone \/ (pagina > MaxPages /\ \A n \in 1..Len(got) : Continues(got[n])))

\* C10 witness: every page served went on and the loop stands at the next
\* page number, not ended.
C10_Witness ==
    /\ op = "lista" /\ pc = "laco"
    /\ pagina = MaxPages + 1 /\ Len(got) = MaxPages
    /\ \A n \in 1..Len(got) : Continues(got[n])

--------------------------------------------------------------------------
\* Reading a formatar_perfil_completo_html call and the driver's output

Rendered == rargs # <<>>
LastArgs == rargs[Len(rargs)]

Has(html, tok) == \E i \in 1..Len(html) : html[i] = tok
\* The token that follows the first occurrence of a label.
After(html, label) ==
    html[(CHOOSE i \in 1..Len(html) : html[i] = label /\ \A j \in 1..(i - 1) : html[j] # label) + 1]

\* Member key of v; null when v is no object or has no such member.
Sub(v, key) == IF v.k = "obj" /\ key \in DOMAIN v.f THEN v.f[key] ELSE JNull

\* The argument carries a non-empty data list.
HasList(x) == Sub(x, "dados").k = "arr" /\ Len(Sub(x, "dados").a) > 0

\* Inputs in which fields are only absent (a missing key or a null), nothing
\* malformed.
SoAusencias(a) ==
    /\ a.detalhes \in DetalhesComPayload \ {DetDataHora}
    /\ a.mandatos # MandEntradaNull

\* C7: a call whose details argument is None, empty, or has a missing, null
\* or empty dados returns the fixed fragment whatever the other arguments;
\* a call whose details carry a data payload never returns it.
C7_ShortCircuit ==
    Rendered =>
        /\ LastArgs.detalhes \in DetalhesSemPayload =>
              rres = [ok |-> TRUE, html |-> Indisponivel]
        /\ LastArgs.detalhes \in DetalhesComPayload =>
              rres # [ok |-> TRUE, html |-> Indisponivel]

\* C7 witness: details with an empty dados object and every other argument
\* carrying data gave the fragment.
C7_Witness ==
    /\ op = "formatar" /\ Rendered
    /\ LastArgs.detalhes = DetDadosVazio
    /\ LastArgs.profissoes = ProfDuas /\ LastArgs.ocupacoes = OcupUma
    /\ LastArgs.mandatos = MandDois /\ LastArgs.frentes = FrenteDuas
    /\ rres = [ok |-> TRUE, html |-> Indisponivel]

\* C8 as claimed: every call with a details payload (and, at most, absent
\* fields) has an output in which
\* the professional section appears exactly when professions or mandates
\* carry a non-empty data list, the parliamentary section exactly when
\* caucuses do, showing their count, and which no other occupations argument
\* would change.
C8_Original ==
    (Rendered /\ SoAusencias(LastArgs)) =>
        /\ rres.ok
        /\ Has(rres.html, TituloProfissional)
              <=> (HasList(LastArgs.profissoes) \/ HasList(LastArgs.mandatos))
        /\ Has(rres.html, TituloParlamentar) <=> HasList(LastArgs.frentes)
        /\ HasList(LastArgs.frentes) =>
              After(rres.html, "Participa de Frentes:")
                 = ToString(Len(Sub(LastArgs.frentes, "dados").a))
        /\ \A o \in ArgsOcupacoes : Formatar([LastArgs EXCEPT !.ocupacoes = o]) = rres

\* The state C8 fails in: a profession entry without titulo, and no output.
C8_Failure ==
    /\ op = "formatar" /\ Rendered
    /\ LastArgs.detalhes = DetMinimo /\ LastArgs.profissoes = ProfSemTitulo
    /\ LastArgs.mandatos = None /\ LastArgs.frentes = None
    /\ rres = [ok |-> FALSE, exc |-> "KeyError"]

\* C9 as claimed: with a details payload and fields only absent, the call
\* returns HTML and shows the fallback text for each absent field.
C9_Original ==
    (Rendered /\ SoAusencias(LastArgs)) =>
        LET dados == Sub(LastArgs.detalhes, "dados")
            status == Sub(dados, "ultimoStatus")
            gabinete == Sub(status, "gabinete")
        IN  /\ rres.ok
            /\ Sub(status, "nomeEleitoral") = JNull =>
                  After(rres.html, "<h2>") = "Nome nao informado"
            /\ Sub(status, "siglaPartido") = JNull => After(rres.html, "<h3>") = "N/A"
            /\ Sub(status, "situacao") = JNull =>
                  After(rres.html, "Situacao:") = "Nao informada"
            /\ Sub(status, "data") = JNull =>
                  After(rres.html, "Status desde:") = "Nao informada"
            /\ Sub(dados, "dataNascimento") = JNull =>
                  After(rres.html, "Data de Nascimento:") = "Nao informada"
            /\ Sub(gabinete, "predio") = JNull => After(rres.html, "Predio") = "?"
            /\ Sub(gabinete, "telefone") = JNull =>
                  After(rres.html, "Telefone:") = "Nao informado"
            /\ Sub(dados, "nomeCivil") = JNull =>
                  After(rres.html, "Nome Civil:") = "Nao informado"

\* The state C9 fails in: ultimoStatus is null and the call raises.
C9_Failure ==
    /\ op = "formatar" /\ Rendered
    /\ LastArgs.detalhes = DetStatusNull
    /\ LastArgs.profissoes = None /\ LastArgs.mandatos = None /\ LastArgs.frentes = None
    /\ rres = [ok |-> FALSE, exc |-> "AttributeError"]

\* The driver's fetches, in order, each ended before the next began.
FetchOrder ==
    <<[ev |-> "inicio", kind |-> "detalhes"], [ev |-> "fim", kind |-> "detalhes"],
      [ev |-> "inicio", kind |-> "profissoes"], [ev |-> "fim", kind |-> "profissoes"],
      [ev |-> "inicio", kind |-> "ocupacoes"], [ev |-> "fim", kind |-> "ocupacoes"],
      [ev |-> "inicio", kind |-> "mandatosExternos"], [ev |-> "fim", kind |-> "mandatosExternos"]>>

ProfileOver == op = "perfil" /\ pc \in {"fim", "excecao"}

\* C6 as claimed: the driver fetches details, professions, occupations and
\* mandates one after the other and nothing else; it renders nothing before
\* they are done; with no details fetched (None, or an empty value, which the
\* driver does not tell apart) it prints the abort message and renders and
\* displays nothing; otherwise it renders once with the four results and no
\* caucuses, displays the HTML and then prints the notice.
C6_Original ==
    op = "perfil" =>
        /\ Len(calls) <= Len(FetchOrder)
        /\ calls = SubSeq(FetchOrder, 1, Len(calls))
        /\ ~ProfileOver => (rargs = <<>> /\ out = <<MsgBuscando>>)
        /\ ProfileOver =>
              /\ calls = FetchOrder
              /\ IF ~Truthy(detalhes)
                 THEN rargs = <<>> /\ out = <<MsgBuscando, MsgAbortar>>
                 ELSE /\ rargs = <<ArgsDoPerfil(detalhes, profissoes, ocupacoes, mandatos)>>
                      /\ rres.ok
                      /\ out = <<MsgBuscando, Display(rres.html), MsgFinalizada>>

\* The state C6 fails in: the details were fetched, the renderer raised on a
\* null ultimoStatus, nothing was displayed and no notice printed.
C6_Failure ==
    /\ ProfileOver /\ pc = "excecao"
    /\ detalhes = DetStatusNull
    /\ rres = [ok |-> FALSE, exc |-> "AttributeError"]
    /\ out = <<MsgBuscando>>

====
